---- MODULE Spec2Model ----
(***************************************************************************)
(* A model of queryer.py: the Queryer class that drives a browser session  *)
(* against the ICSD web interface, posts a query, walks the detailed view  *)
(* of every hit and writes one directory per entry.                        *)
(*                                                                         *)
(* The web site is the environment: what an element lookup finds and what  *)
(* a page shows is chosen nondeterministically each time the code asks the *)
(* driver.  The program itself is sequential; pc is its position in        *)
(* perform_icsd_query.                                                     *)
(***************************************************************************)
EXTENDS Integers, Sequences, FiniteSets, TLC

\* ------------------------------------------------------------- bounds
MaxHits == 2        \* largest number of hits the results list reports
MaxCode == 2        \* collection codes are 1..MaxCode

VARIABLES
    pc,               \* position of the program
    err,              \* the exception that left the program, "none" if none
    log,              \* the driver interactions and file operations so far
    query,            \* self.query, the keys in iteration order
    save_screenshot,  \* the instance attribute self.save_screenshot
    hits,             \* self.hits
    page_obatained,   \* self.page_obatained
    soup,             \* self.soup, the parsed page snapshot
    page,             \* the entry page the browser displays
    i,                \* number of completed iterations of the entry loop
    entries_parsed,   \* the list parse_entries builds
    coll_code,        \* coll_code of the current iteration
    dirs,             \* directories in the working directory
    files,            \* files in those directories
    downloads,        \* files in self.download_dir
    pending,          \* downloads triggered and not yet on disk
    records,          \* entry_data of every parse_entry call that returned
    shown,            \* the page displayed at every parse_entry call
    structure_source, \* self._structure_source
    call,             \* the last single method call: method, input, result
    unready           \* some wait_for_ajax of the run ended without a ready page

vars == <<pc, err, log, query, save_screenshot, hits, page_obatained,
          soup, page, i, entries_parsed, coll_code, dirs, files, downloads,
          pending, records, shown, structure_source, call, unready>>

\* ------------------------------------------------------------- values
Ev(o, a) == [op |-> o, arg |-> a]

Codes == 1..MaxCode

\* str(collection_code)
Str(c) == ToString(c)

DirNames == {Str(c) : c \in Codes}

\* the name under which the site sends the CIF of the entry with code c
ExportedName(c) == "ICSD_CollCode" \o ToString(c) \o ".cif"

\* the name of the docstring of export_CIF, which the site does not use
CIF_name_underscored(cc) == "ICSD_Coll_Code_" \o cc \o ".cif"

\* 'ICSD_CollCode{}.cif'.format(coll_code)
CIF_name(cc) == "ICSD_CollCode" \o cc \o ".cif"

\* '{}.cif'.format(coll_code)
CIF_dest_name(cc) == cc \o ".cif"

\* The field names the form knows (keys of ICSD_QUERY_TAGS).
QueryTags == {"composition", "number_of_elements", "icsd_collection_code"}

\* Keys a caller may put in the query; "authors" is not a form field.
InputKeys == {"composition", "authors"}

RECURSIVE SeqsUpTo(_, _)
SeqsUpTo(S, n) ==
    IF n = 0 THEN {<<>>}
    ELSE LET shorter == SeqsUpTo(S, n - 1)
         IN shorter \cup {Append(s, k) : s \in shorter, k \in S}

Injective(s) == \A a, b \in 1..Len(s) : s[a] = s[b] => a = b

\* A dict has each key once; <<>> stands for None and for {}.
Queries == {q \in SeqsUpTo(InputKeys, Cardinality(InputKeys)) : Injective(q)}

\* The text of a title element as far as the code reads it: the element is
\* absent, carries another text, carries the marker with a count token that
\* int() rejects (or too few tokens), or carries the marker and the count n.
Titles == {[kind |-> k, n |-> 0] : k \in {"absent", "other", "malformed"}}
            \cup {[kind |-> "ok", n |-> h] : h \in 0..MaxHits}

\* The detailed view of one entry: the 'Summary' title (absent, malformed, or
\* carrying the collection code), the content of its tables and whether the
\* additional-information table has rows.
Formulas == {"Ni1 Ti1", "Ni2 Ti1"}

Pages == {[summary |-> "ok", code |-> c, formula |-> f, warn |-> w] :
              c \in Codes, f \in Formulas, w \in BOOLEAN}
           \cup {[summary |-> s, code |-> 1, formula |-> "", warn |-> FALSE] :
                     s \in {"absent", "malformed"}}

NoPage == [summary |-> "absent", code |-> 1, formula |-> "", warn |-> FALSE]

\* Python truthiness of the values save_screenshot can hold.
Truthy(v) == v = "True"

\* Text is a sequence of characters; None is told apart from every text.
None == <<"None">>

\* the structure_source argument when the caller does not pass one
NotSupplied == None

\* no single method call has been made
NoCall == [fn |-> "none"]

\* ------------------------------------------------------------- frames
config == <<query, save_screenshot, structure_source>>
snap == <<page_obatained, soup>>
loop == <<i, entries_parsed, coll_code>>
disk == <<dirs, files, downloads>>
ghost == <<records, shown, call>>

\* An exception leaves the program after the driver interactions evs.
Raise(e, evs) ==
    /\ pc' = "raised"
    /\ err' = e
    /\ log' = log \o evs

\* a check that raises and leaves the session open
RaiseWithoutQuit(evs) == Raise("QueryerError", evs)

\* self.quit(); raise QueryerError(error_message)
QuitAndRaise(evs) == Raise("QueryerError", evs \o <<Ev("quit", 0)>>)

\* The program moves on to position p after the interactions evs.
Goto(p, evs) ==
    /\ pc' = p
    /\ err' = "none"
    /\ log' = log \o evs

\* ------------------------------------------------------------- Init
Init ==
    /\ pc = "new"
    /\ err = "none"
    /\ log = <<>>
    /\ query \in Queries
    /\ save_screenshot \in {"None", "True"}
    /\ hits = 0
    /\ page_obatained = FALSE
    /\ soup = NoPage
    /\ page = NoPage
    /\ i = 0
    /\ entries_parsed = <<>>
    /\ coll_code = ""
    /\ dirs \in SUBSET DirNames
    /\ files = {[dir |-> d, name |-> "old", by |-> 0] : d \in dirs}
    /\ downloads \in SUBSET {ExportedName(c) : c \in Codes}
    /\ pending = {}
    /\ records = <<>>
    /\ shown = <<>>
    /\ structure_source = None
    /\ call = NoCall
    /\ unready = FALSE

\* ------------------------------------------------------------- __init__
\* query.setter: a falsy query becomes {}, any other is kept
QuerySetter(q) == IF q = <<>> THEN <<>> ELSE q

\* self.save_screenshot = save_screenshot: the method defined at the end of
\* the class rebinds the class attribute save_screenshot, so the property and
\* its setter are gone and the assignment stores the argument unchanged as an
\* instance attribute.
SaveScreenshotAssigned(v) == v

\* str.upper() on one character
Upper(c) ==
    CASE c = "e" -> "E"
      [] c = "t" -> "T"
      [] c = "a" -> "A"
      [] c = "x" -> "X"
      [] OTHER -> c

\* an assignment that stores the value as given
StructureSourceKept(v) == v

\* structure_source.setter: 'A' for a falsy value and for a first letter
\* other than E, T, A; the upper-cased first letter otherwise
StructureSourceSetter(v) ==
    IF v = None \/ v = <<>> THEN <<"A">>
    ELSE IF Upper(v[1]) \notin {"E", "T", "A"} THEN <<"A">>
    ELSE <<Upper(v[1])>>

\* 'Basic Search' in header.text, for the header element h (or its absence)
BasicSearchLoaded(h) == h = "Basic Search"

\* __init__: the setters, _initialize_driver, driver.get, _check_basic_search
Construct ==
    /\ pc = "new"
    /\ query' = QuerySetter(query)
    /\ save_screenshot' = SaveScreenshotAssigned(save_screenshot)
    /\ structure_source' = StructureSourceSetter(NotSupplied)
    /\ downloads' = {}
    /\ UNCHANGED <<snap, page, loop, dirs, files, pending, ghost, unready>>
    /\ \E h \in {"absent", "other", "Basic Search"} :
          IF BasicSearchLoaded(h)
          THEN /\ Goto("constructed", <<Ev("get", 0), Ev("check_basic_search", 1)>>)
               /\ hits' = 0
          ELSE /\ QuitAndRaise(<<Ev("get", 0), Ev("check_basic_search", 0)>>)
               /\ UNCHANGED hits

\* ------------------------------------------------------------- the query
\* a lookup that skips unknown keys, as ICSD_QUERY_TAGS.get(k) would
RecognizedAny(k) == TRUE

\* ICSD_QUERY_TAGS[k] succeeds
Recognized(k) == k \in QueryTags

\* index of the first key ICSD_QUERY_TAGS does not have, Len(q)+1 if none
FirstUnknown(q) ==
    LET bad == {k \in 1..Len(q) : ~Recognized(q[k])}
    IN IF bad = {} THEN Len(q) + 1
       ELSE CHOOSE k \in bad : \A j \in bad : k <= j

SendKeys(n) == [k \in 1..n |-> Ev("send_keys", k)]

\* the loop of post_query_to_form over self.query.items(), when `stop` is the
\* first key whose form element the driver cannot find (Len(q)+1: all found)
FillForm(q, stop) ==
    LET bad == FirstUnknown(q)
    IN IF bad <= Len(q) /\ bad <= stop
       THEN [err |-> "KeyError", evs |-> SendKeys(bad - 1)]
       ELSE IF stop <= Len(q)
       THEN [err |-> "NoSuchElementException", evs |-> SendKeys(stop - 1)]
       ELSE [err |-> "none", evs |-> SendKeys(Len(q))]

\* 'List View' in title.text, resp. 'Detailed View' in t.text for some title
HasMarker(t) == t.kind \in {"ok", "malformed"}

\* what a check finds: 1 with the marker, 0 without
Marker(t) == IF HasMarker(t) THEN 1 ELSE 0

\* int(title.text.split()[k]) returns
CountReadable(t) == t.kind = "ok"

\* _check_list_view on the title t: the exception raised and the new hits
CheckListView(t, h) ==
    IF ~HasMarker(t)
    THEN [err |-> "QueryerError", quit |-> TRUE, hits |-> h]
    ELSE IF ~CountReadable(t)
    THEN [err |-> "ValueError", quit |-> FALSE, hits |-> h]
    ELSE [err |-> "none", quit |-> FALSE, hits |-> t.n]

\* a check that lets every query through
EmptyQueryIgnored(q) == FALSE

\* not self.query
EmptyQuery(q) == q = <<>>

\* post_query_to_form: the empty-query check, the form, _run_query,
\* _check_list_view
PostQueryToForm ==
    /\ pc = "constructed"
    /\ UNCHANGED <<config, snap, page, loop, disk, pending, ghost, unready>>
    /\ \/ /\ EmptyQuery(query)
          /\ QuitAndRaise(<<>>)
          /\ UNCHANGED hits
       \/ /\ ~EmptyQuery(query)
          /\ \E stop \in 1..(Len(query) + 1) :
                LET f == FillForm(query, stop)
                IN /\ f.err # "none"
                   /\ Raise(f.err, f.evs)
                   /\ UNCHANGED hits
       \/ /\ ~EmptyQuery(query)
          /\ FillForm(query, Len(query) + 1).err = "none"
          /\ Raise("NoSuchElementException",
                   FillForm(query, Len(query) + 1).evs)
          /\ UNCHANGED hits
       \/ /\ ~EmptyQuery(query)
          /\ FillForm(query, Len(query) + 1).err = "none"
          /\ \E t \in Titles :
                LET c == CheckListView(t, hits)
                    evs == FillForm(query, Len(query) + 1).evs
                             \o <<Ev("click_run_query", 0),
                                  Ev("check_list_view", Marker(t))>>
                IN /\ hits' = c.hits
                   /\ IF c.err = "none" THEN Goto("posted", evs)
                      ELSE IF c.quit THEN QuitAndRaise(evs)
                      ELSE Raise(c.err, evs)

\* ------------------------------------------------------------- wait_for_ajax
\* What the page shows to one wait_for_ajax: jQuery idle and the document
\* complete; requests that stay active, or a document that stays loading,
\* for the whole wait; a script that fails (jQuery is not defined).
WaitOutcomes == {"ready", "busy", "loading", "script_error"}

\* the two wait.until calls: the exception that ends them, "none" if none
Until(w) ==
    CASE w = "ready" -> "none"
      [] w = "busy" -> "TimeoutException"
      [] w = "loading" -> "TimeoutException"
      [] w = "script_error" -> "JavascriptException"

\* a wait without the try/except
WaitForAjaxUncaught(w) == [exc |-> Until(w), ready |-> Until(w) = "none"]

\* wait_for_ajax: except Exception: pass
WaitForAjax(w) ==
    IF Until(w) # "none" THEN [exc |-> "none", ready |-> FALSE]
    ELSE [exc |-> "none", ready |-> TRUE]

\* the step goes on after a wait_for_ajax with result a
Waited(a) == unready' = (unready \/ ~a.ready)

\* Select All clicked before the query is posted
ClickSelectAllEarly ==
    /\ pc = "constructed"
    /\ UNCHANGED <<config, hits, snap, page, loop, disk, pending, ghost, unready>>
    /\ Goto("selected", <<Ev("click_select_all", 0)>>)

\* _click_select_all
ClickSelectAll ==
    /\ pc = "posted"
    /\ UNCHANGED <<config, hits, snap, page, loop, disk, pending, ghost>>
    /\ \E w \in WaitOutcomes :
          LET a == WaitForAjax(w)
          IN IF a.exc # "none"
             THEN /\ Raise(a.exc, <<>>)
                  /\ UNCHANGED unready
             ELSE /\ Waited(a)
                  /\ \/ Raise("NoSuchElementException", <<>>)
                     \/ Goto("selected", <<Ev("click_select_all", 0)>>)

\* _check_detailed_view on the titles the driver finds
CheckDetailedView(t) ==
    IF HasMarker(t)
    THEN [err |-> "none", quit |-> FALSE]
    ELSE [err |-> "QueryerError", quit |-> TRUE]

\* _click_show_detailed_view: the click, _check_detailed_view, _expand_all
ClickShowDetailedView ==
    /\ pc = "selected"
    /\ UNCHANGED <<config, hits, snap, loop, disk, pending, ghost>>
    /\ \E w \in WaitOutcomes :
          LET a == WaitForAjax(w)
              clicked == <<Ev("click_show_detailed_view", 0)>>
          IN IF a.exc # "none"
             THEN /\ Raise(a.exc, <<>>)
                  /\ UNCHANGED <<page, unready>>
             ELSE /\ Waited(a)
                  /\ \/ /\ Raise("NoSuchElementException", <<>>)
                        /\ UNCHANGED page
                     \/ \E t \in Titles, p \in Pages :
                           /\ CheckDetailedView(t).err # "none"
                           /\ QuitAndRaise(clicked \o <<Ev("check_detailed_view", 0)>>)
                           /\ page' = p
                     \/ \E t \in Titles, p \in Pages :
                           /\ CheckDetailedView(t).err = "none"
                           /\ page' = p
                           /\ \/ Raise("NoSuchElementException",
                                       clicked \o <<Ev("check_detailed_view", 1)>>)
                              \/ Goto("detailed",
                                      clicked \o <<Ev("check_detailed_view", 1),
                                                   Ev("click_expand_all", 0)>>)

\* ------------------------------------------------------------- parse_entry
\* The keys of ICSD_PARSE_TAGS in iteration order: a text field read from
\* the chemistry panel, a checkbox, the warnings of the additional
\* information table, and a tag no method of the class parses.
ParseTags == <<"chemical_formula", "mineral", "warnings", "unparsed_tag">>

\* the tags t of ParseTags for which the class defines get_t, resp. is_t
GetMethods == {"chemical_formula", "warnings"}
IsMethods == {"mineral"}

\* get_html_table: the page is parsed into self.soup only while
\* page_obatained is False; st is <<page_obatained, soup>> as a record
GetHtmlTable(st, pg) ==
    IF st.obtained THEN st ELSE [obtained |-> TRUE, soup |-> pg]

\* get_chemical_formula: the 'Sum. formula' row of the chemistry panel
GetChemicalFormula(st, pg) ==
    LET s == GetHtmlTable(st, pg)
    IN [exc |-> "none", val |-> s.soup.formula, st |-> s]

\* is_mineral: "Mineral name" is looked up among the column names, which
\* _parse_two_column_table has set to Name and Value
IsMineral(st, pg) ==
    LET s == GetHtmlTable(st, pg)
    IN [exc |-> "none", val |-> FALSE, st |-> s]

\* get_warnings -> _get_additional_info: [] for the empty table; otherwise
\* icecream is imported (ic: the import succeeds) and
\* self._parse_two_column_tables, which the class does not define, is
\* looked up
GetWarnings(st, pg, ic) ==
    LET s == GetHtmlTable(st, pg)
    IN IF ~s.soup.warn THEN [exc |-> "none", val |-> <<>>, st |-> s]
       ELSE IF ~ic THEN [exc |-> "ImportError", val |-> <<>>, st |-> s]
       ELSE [exc |-> "AttributeError", val |-> <<>>, st |-> s]

\* getattr(self, 'get_' + tag)()
CallGet(tag, st, pg, ic) ==
    IF tag \notin GetMethods THEN [exc |-> "AttributeError", val |-> 0, st |-> st]
    ELSE IF tag = "chemical_formula" THEN GetChemicalFormula(st, pg)
    ELSE GetWarnings(st, pg, ic)

\* getattr(self, 'is_' + tag)()
CallIs(tag, st, pg, ic) ==
    IF tag \notin IsMethods THEN [exc |-> "AttributeError", val |-> 0, st |-> st]
    ELSE IsMineral(st, pg)

\* get_collection_code: without a 'Summary' title collection_code is never
\* bound; when int() fails the handler quits and then adds the exception to
\* a string
GetCollectionCode(pg) ==
    IF pg.summary = "absent"
    THEN [exc |-> "UnboundLocalError", quit |-> FALSE, val |-> 0]
    ELSE IF pg.summary = "malformed"
    THEN [exc |-> "TypeError", quit |-> TRUE, val |-> 0]
    ELSE [exc |-> "none", quit |-> FALSE, val |-> pg.code]

\* the value of a one-element set
Only(S) == CHOOSE x \in S : TRUE

\* except AttributeError around get_<tag>: is_<tag> is tried, and a second
\* AttributeError reports the tag as not implemented
TryIs(tag, acc, b) ==
    IF b.exc = "none"
    THEN [acc EXCEPT !.data = @ @@ (tag :> b.val), !.st = b.st]
    ELSE IF b.exc # "AttributeError"
    THEN [acc EXCEPT !.exc = b.exc, !.st = b.st]
    ELSE [acc EXCEPT !.notimpl = @ \cup {tag}, !.st = b.st]

\* the body of the loop of parse_entry for one tag, g the outcome of get_<tag>
TryGet(tag, acc, g, pg, ic) ==
    IF g.exc = "none"
    THEN [acc EXCEPT !.data = @ @@ (tag :> g.val), !.st = g.st]
    ELSE IF g.exc # "AttributeError"
    THEN [acc EXCEPT !.exc = g.exc, !.st = g.st]
    ELSE Only({TryIs(tag, acc, b) : b \in {CallIs(tag, g.st, pg, ic)}})

\* the loop of parse_entry from the k-th tag on; an exception other than
\* AttributeError ends it
RECURSIVE ParseFrom(_, _, _, _)
ParseFrom(k, acc, pg, ic) ==
    IF k > Len(ParseTags) \/ acc.exc # "none" THEN acc
    ELSE Only({ParseFrom(k + 1, nxt, pg, ic) :
                  nxt \in {TryGet(ParseTags[k], acc, g, pg, ic) :
                              g \in {CallGet(ParseTags[k], acc.st, pg, ic)}}})

\* parse_entry on the displayed page pg
ParseEntry(st, pg, ic) ==
    LET c == GetCollectionCode(pg)
        start == [exc |-> c.exc, quit |-> c.quit, st |-> st, notimpl |-> {},
                  data |-> ("collection_code" :> c.val)]
    IN IF c.exc # "none" THEN start ELSE ParseFrom(1, start, pg, ic)

\* ------------------------------------------------------------- parse_entries
\* _get_number_of_entries_loaded on the title t: None without a title that
\* has 'Detailed View', int() of its sixth token otherwise
NumberOfEntriesLoaded(t) ==
    IF ~HasMarker(t) THEN [exc |-> "none", none |-> TRUE, n |-> 0]
    ELSE IF ~CountReadable(t) THEN [exc |-> "ValueError", none |-> FALSE, n |-> 0]
    ELSE [exc |-> "none", none |-> FALSE, n |-> t.n]

\* self._get_number_of_entries_loaded() != self.hits
CountMismatch(r, h) == r.none \/ r.n # h

\* the head of parse_entries, up to the entry loop
ParseEntriesBegin ==
    /\ pc = "detailed"
    /\ UNCHANGED <<config, hits, snap, page, coll_code, disk, pending, ghost,
                   unready>>
    /\ \E t \in Titles :
          LET r == NumberOfEntriesLoaded(t)
          IN IF r.exc # "none"
             THEN /\ Raise(r.exc, <<>>)
                  /\ UNCHANGED <<i, entries_parsed>>
             ELSE IF CountMismatch(r, hits)
             THEN /\ QuitAndRaise(<<>>)
                  /\ UNCHANGED <<i, entries_parsed>>
             ELSE /\ Goto("loop", <<Ev("count_ok", 0)>>)
                  /\ i' = 0
                  /\ entries_parsed' = <<>>

\* an existing directory that is kept (os.makedirs(..., exist_ok=True))
RmtreeKeep(F, c) == F

\* if os.path.exists(coll_code): shutil.rmtree(coll_code)
Rmtree(F, c) == {f \in F : f.dir # c}

\* self.save_screenshot is callable: it is the value __init__ stored, never
\* the method of the class
ScreenshotCallable(v) == v \notin {"None", "False", "True"}

\* one iteration of the entry loop up to the click of export_CIF
ExtractAndExport ==
    /\ pc = "loop"
    /\ i < hits
    /\ UNCHANGED <<config, hits, page, i, entries_parsed, downloads, call>>
    /\ \E ic \in BOOLEAN, w \in WaitOutcomes :
       \E r \in {ParseEntry([obtained |-> page_obatained, soup |-> soup],
                            page, ic)} :
       LET n == i + 1
           a == WaitForAjax(w)
           snapshot == r.st.obtained /\ ~page_obatained
           cc == Str(r.data["collection_code"])
           meta == [dir |-> cc, name |-> "meta_data.json", by |-> n]
           shot == [dir |-> cc, name |-> "screenshot.png", by |-> n]
           written == <<Ev("parse_entry", n)>>
                        \o (IF cc \in dirs THEN <<Ev("rmtree", n)>> ELSE <<>>)
                        \o <<Ev("mkdir", n), Ev("write_meta", n)>>
           saved == written \o IF Truthy(save_screenshot)
                               THEN <<Ev("screenshot", n)>> ELSE <<>>
       IN /\ shown' = Append(shown, page)
          /\ IF snapshot /\ a.exc # "none"
             THEN /\ Raise(a.exc, <<Ev("parse_entry", n)>>)
                  /\ UNCHANGED <<snap, coll_code, dirs, files, pending, records,
                                 unready>>
             ELSE IF r.exc # "none"
             THEN /\ Raise(r.exc, <<Ev("parse_entry", n)>>
                                    \o IF r.quit THEN <<Ev("quit", 0)>> ELSE <<>>)
                  /\ page_obatained' = r.st.obtained
                  /\ soup' = r.st.soup
                  /\ unready' = (unready \/ (snapshot /\ ~a.ready))
                  /\ UNCHANGED <<coll_code, dirs, files, pending, records>>
             ELSE /\ page_obatained' = r.st.obtained
                  /\ soup' = r.st.soup
                  /\ records' = Append(records, r.data)
                  /\ coll_code' = cc
                  /\ dirs' = dirs \cup {cc}
                  /\ IF Truthy(save_screenshot) /\ ~ScreenshotCallable(save_screenshot)
                     THEN /\ files' = Rmtree(files, cc) \cup {meta}
                          /\ Raise("TypeError", written)
                          /\ unready' = (unready \/ (snapshot /\ ~a.ready))
                          /\ UNCHANGED pending
                     ELSE /\ files' = Rmtree(files, cc) \cup {meta}
                                        \cup IF Truthy(save_screenshot) THEN {shot} ELSE {}
                          /\ IF a.exc # "none"
                             THEN /\ Raise(a.exc, saved)
                                  /\ UNCHANGED <<pending, unready>>
                             ELSE /\ Waited(a)
                                  /\ \/ /\ Raise("NoSuchElementException", saved)
                                        /\ UNCHANGED pending
                                     \/ /\ Goto("wait", saved \o <<Ev("click_export", n)>>)
                                        /\ pending' = pending \cup {ExportedName(page.code)}

\* entries_parsed.insert(0, coll_code)
PrependCode(lst, cc) == <<cc>> \o lst

\* entries_parsed.append(coll_code)
AppendCode(lst, cc) == Append(lst, cc)

\* a loop that does not wait for the download
CIFNotAwaited == TRUE

\* os.path.exists(CIF_source_loc)
CIFDownloaded == CIF_name(coll_code) \in downloads

\* the rest of the iteration: the file is there, shutil.move, the append
\* and _go_to_next_entry, which shows another entry unless the last one of
\* the hits entries is displayed
MoveAndAdvance ==
    /\ pc = "wait"
    /\ CIFDownloaded
    /\ UNCHANGED <<config, hits, snap, coll_code, dirs, pending, ghost>>
    /\ \E w \in WaitOutcomes :
       LET n == i + 1
           a == WaitForAjax(w)
           cif == [dir |-> coll_code, name |-> CIF_dest_name(coll_code), by |-> n]
           done == <<Ev("move", n), Ev("append", n)>>
       IN /\ downloads' = downloads \ {CIF_name(coll_code)}
          /\ files' = files \cup {cif}
          /\ entries_parsed' = AppendCode(entries_parsed, coll_code)
          /\ IF hits = 1
             THEN /\ Goto("loop", done)
                  /\ i' = n
                  /\ UNCHANGED <<page, unready>>
             ELSE IF a.exc # "none"
             THEN /\ Raise(a.exc, done)
                  /\ UNCHANGED <<i, page, unready>>
             ELSE /\ Waited(a)
                  /\ \/ /\ Raise("NoSuchElementException", done)
                        /\ UNCHANGED <<i, page>>
                     \/ /\ Goto("loop", done \o <<Ev("click_next", n)>>)
                        /\ i' = n
                        /\ IF n < hits THEN page' \in Pages ELSE page' = page

\* a close that is repeated after the loop
FinishTwice ==
    /\ pc = "loop"
    /\ i = hits
    /\ Goto("done", <<Ev("quit", 0), Ev("quit", 0)>>)
    /\ UNCHANGED <<config, hits, snap, page, loop, disk, pending, ghost, unready>>

\* after the loop: self.quit() and the return of entries_parsed
Finish ==
    /\ pc = "loop"
    /\ i = hits
    /\ Goto("done", <<Ev("quit", 0)>>)
    /\ UNCHANGED <<config, hits, snap, page, loop, disk, pending, ghost, unready>>

\* the browser finishes writing a triggered download
DownloadCompletes ==
    /\ \E f \in pending :
          /\ pending' = pending \ {f}
          /\ downloads' = downloads \cup {f}
    /\ UNCHANGED <<pc, err, log, config, hits, snap, page, loop, dirs, files,
                   ghost, unready>>

Next ==
    \/ Construct
    \/ PostQueryToForm
    \/ ClickSelectAll
    \/ ClickShowDetailedView
    \/ ParseEntriesBegin
    \/ ExtractAndExport
    \/ MoveAndAdvance
    \/ Finish
    \/ DownloadCompletes

Spec == Init /\ [][Next]_vars

\* the steps of the program itself
Program ==
    \/ Construct
    \/ PostQueryToForm
    \/ ClickSelectAll
    \/ ClickShowDetailedView
    \/ ParseEntriesBegin
    \/ ExtractAndExport
    \/ MoveAndAdvance
    \/ Finish

\* The program is sequential and every call of it returns, so it takes its
\* next step whenever it has one; every triggered export reaches the
\* download directory.
FairSpec == Spec /\ WF_vars(Program) /\ WF_vars(DownloadCompletes)

\* ------------------------------------------------------------- single methods
\* Methods whose result depends only on their input are called once each on
\* a constructed object: the structure_source setter on its argument,
\* get_cell_parameters on the tokens of the 'Cell parameter' value, and the
\* text getters on the rows of their panel.

\* a, b, c, alpha, beta, gamma = [...]: the unpacking takes exactly six values
NumCellParameters == 6

\* assert alpha < 180
MaxAngle == 180

\* tokens beyond the six a 'Cell parameter' value may have
MaxExtraTokens == 1

\* the decimal digits the model's numbers are written with
Digits == ("0" :> 0) @@ ("1" :> 1) @@ ("2" :> 2) @@ ("8" :> 8) @@ ("9" :> 9)

\* str.lstrip, str.rstrip and str.strip for the character set cs
RECURSIVE LStrip(_, _)
LStrip(s, cs) ==
    IF s # <<>> /\ Head(s) \in cs THEN LStrip(Tail(s), cs) ELSE s

RECURSIVE RStrip(_, _)
RStrip(s, cs) ==
    IF s # <<>> /\ s[Len(s)] \in cs THEN RStrip(SubSeq(s, 1, Len(s) - 1), cs)
    ELSE s

Strip(s, cs) == RStrip(LStrip(s, cs), cs)

\* the characters str.strip() removes
Whitespace == {" ", "\n"}

\* e.split('(')[0]
RECURSIVE BeforeParen(_)
BeforeParen(e) ==
    IF e = <<>> \/ Head(e) = "(" THEN <<>>
    ELSE <<Head(e)>> \o BeforeParen(Tail(e))

\* the value of a string of digits
RECURSIVE NumberOf(_)
NumberOf(t) ==
    IF t = <<>> THEN 0
    ELSE 10 * NumberOf(SubSeq(t, 1, Len(t) - 1)) + Digits[t[Len(t)]]

\* float(e.split('(')[0].strip('.')) for whole numbers: ok is FALSE when
\* float raises ValueError
Float(e) ==
    LET t == Strip(BeforeParen(e), {"."})
        ok == t # <<>> /\ \A k \in DOMAIN t : t[k] \in DOMAIN Digits
    IN [ok |-> ok, v |-> IF ok THEN NumberOf(t) ELSE 0]

\* Series.to_string(index=False) of a selection without rows
EmptySeriesText == <<"S", "e", "r", "i", "e", "s", "(", "[", "]", ",", " ", ")">>

\* EmptySeriesText.split()
EmptySeriesTokens ==
    <<SubSeq(EmptySeriesText, 1, 10), SubSeq(EmptySeriesText, 12, 12)>>

\* raw_text.split() of a 'Cell parameter' value: a zero, a length or angle
\* with its uncertainty, a straight angle, and a token that is no number
CellTokens == {<<"0">>, <<"9", "0", "(", "2", ")">>, <<"1", "8", "0">>, <<"x">>}

CellTexts ==
    UNION {[1..n -> CellTokens] :
              n \in (NumCellParameters - 1)..(NumCellParameters + MaxExtraTokens)}
      \cup {EmptySeriesTokens}

\* asserts that only require positive values
CellAssertsPositive(v) == \A k \in DOMAIN v : v[k] > 0

\* the nine asserts of get_cell_parameters on <<a, b, c, alpha, beta, gamma>>
CellAsserts(v) ==
    /\ \A k \in DOMAIN v : v[k] > 0
    /\ \A k \in 4..NumCellParameters : v[k] < MaxAngle

\* get_cell_parameters on the tokens of the row's text
GetCellParameters(toks) ==
    LET fs == [k \in DOMAIN toks |-> Float(toks[k])]
        v == [k \in DOMAIN toks |-> fs[k].v]
    IN IF \E k \in DOMAIN fs : ~fs[k].ok \/ Len(toks) # NumCellParameters
       THEN [exc |-> "ValueError", val |-> <<>>]
       ELSE IF ~CellAsserts(v)
       THEN [exc |-> "AssertionError", val |-> <<>>]
       ELSE [exc |-> "none",
             val |-> ("a" :> v[1]) @@ ("b" :> v[2]) @@ ("c" :> v[3])
                       @@ ("alpha" :> v[4]) @@ ("beta" :> v[5])
                       @@ ("gamma" :> v[6])]

\* the getters documented as returning a string, empty if not available
TextGetters ==
    {"PDF_number", "authors", "publication_title", "reference",
     "chemical_formula", "structural_formula", "AB_formula", "space_group",
     "crystal_system", "wyckoff_sequence", "pearson", "crystal_class",
     "temperature", "pressure"}

\* the Name of the row each getter selects
RowName(g) ==
    CASE g = "PDF_number" -> "PDF calc."
      [] g = "authors" -> "Author"
      [] g = "publication_title" -> "Reference"
      [] g = "reference" -> "Reference"
      [] g = "chemical_formula" -> "Sum. formula"
      [] g = "structural_formula" -> "Struct. formula"
      [] g = "AB_formula" -> "AB formula"
      [] g = "space_group" -> "Space group"
      [] g = "crystal_system" -> "Crystal System"
      [] g = "wyckoff_sequence" -> "Wyckoff sequence"
      [] g = "pearson" -> "Pearson symbol"
      [] g = "crystal_class" -> "Crystal Class"
      [] g = "temperature" -> "Temperature"
      [] g = "pressure" -> "Pressure"

\* the getters that compare the text with "Series([], )" before returning
GuardedGetters == {"PDF_number", "crystal_system", "crystal_class"}

\* the Value of a row as the panel holds it
RowValues == {<<"x">>, <<" ", "x", " ">>}

\* a panel with at most one row
Panels ==
    {<<>>} \cup {<<[Name |-> RowName(g), Value |-> v]>> :
                    g \in TextGetters, v \in RowValues}

\* _df[_df.Name == name].Value.to_string(index=False)
ValueToString(panel, name) ==
    LET rows == SelectSeq(panel, LAMBDA r : r.Name = name)
    IN IF rows = <<>> THEN EmptySeriesText ELSE rows[1].Value

\* get_<g>() on the panel
TextGetter(g, panel) ==
    LET raw == ValueToString(panel, RowName(g))
    IN IF g \in GuardedGetters /\ raw = EmptySeriesText THEN <<>>
       ELSE Strip(raw, Whitespace)

\* the values assigned to structure_source
SourceInputs ==
    {None, <<>>, <<"e">>, <<"E", "x">>, <<"t">>, <<"T">>, <<"a">>, <<"x">>,
     <<"x", "e">>}

\* what the single calls leave alone
object == <<err, log, query, save_screenshot, hits, snap, page, loop, disk,
            pending, records, shown, unready>>

\* an object constructed with any structure_source, no method called yet
FieldInit ==
    /\ pc = "fields"
    /\ err = "none"
    /\ log = <<>>
    /\ query = <<>>
    /\ save_screenshot = "None"
    /\ hits = 0
    /\ page_obatained = FALSE
    /\ soup = NoPage
    /\ page = NoPage
    /\ i = 0
    /\ entries_parsed = <<>>
    /\ coll_code = ""
    /\ dirs = {}
    /\ files = {}
    /\ downloads = {}
    /\ pending = {}
    /\ records = <<>>
    /\ shown = <<>>
    /\ structure_source \in {StructureSourceSetter(v) : v \in SourceInputs}
    /\ call = NoCall
    /\ unready = FALSE

\* self.structure_source = v
AssignStructureSource ==
    /\ pc = "fields"
    /\ \E v \in SourceInputs :
          /\ structure_source' = StructureSourceSetter(v)
          /\ call' = [fn |-> "structure_source", arg |-> v,
                      out |-> StructureSourceSetter(v)]
    /\ pc' = "returned"
    /\ UNCHANGED object

\* self.get_cell_parameters()
CallGetCellParameters ==
    /\ pc = "fields"
    /\ \E t \in CellTexts :
          call' = [fn |-> "get_cell_parameters", arg |-> t,
                   out |-> GetCellParameters(t)]
    /\ pc' = "returned"
    /\ UNCHANGED <<object, structure_source>>

\* self.get_<g>() for a text getter g
CallTextGetter ==
    /\ pc = "fields"
    /\ \E g \in TextGetters, panel \in Panels :
          call' = [fn |-> g, arg |-> panel, out |-> TextGetter(g, panel)]
    /\ pc' = "returned"
    /\ UNCHANGED <<object, structure_source>>

FieldNext ==
    \/ AssignStructureSource
    \/ CallGetCellParameters
    \/ CallTextGetter

FieldSpec == FieldInit /\ [][FieldNext]_vars

\* ------------------------------------------------------------- properties
Has(o, a) == \E k \in DOMAIN log : log[k] = Ev(o, a)

\* the second event is in the log only after the first
Precedes(o1, a1, o2, a2) ==
    \A k \in DOMAIN log :
        log[k] = Ev(o2, a2) => \E j \in 1..(k - 1) : log[j] = Ev(o1, a1)

Count(o, a) == Cardinality({k \in DOMAIN log : log[k] = Ev(o, a)})

HasOp(o) == \E k \in DOMAIN log : log[k].op = o

FilesOf(F, d) == {f \in F : f.dir = d}

\* C1: when parse_entries starts and does not get past its count check (the
\* count of the detailed view differs from hits, or no count can be read),
\* the session has been quit, a QueryerError is raised, and no entry was
\* parsed, no directory made or removed, no file written, no export triggered.
C1_HitCountMismatchAborts ==
    (pc = "raised" /\ Has("click_expand_all", 0) /\ ~Has("count_ok", 0))
        => /\ err = "QueryerError"
           /\ log[Len(log)] = Ev("quit", 0)
           /\ ~HasOp("parse_entry") /\ ~HasOp("mkdir") /\ ~HasOp("rmtree")
           /\ ~HasOp("write_meta") /\ ~HasOp("click_export")
           /\ pending = {}

\* C2: whenever one of the three page checks finds its marker absent, the
\* very next driver interaction is quit, nothing follows it, and the run has
\* ended with a QueryerError.
C2_MarkerAbsentQuitsThenRaises ==
    \A k \in DOMAIN log :
        (/\ log[k].op \in {"check_basic_search", "check_list_view",
                           "check_detailed_view"}
         /\ log[k].arg = 0)
            => /\ Len(log) = k + 1
               /\ log[k + 1] = Ev("quit", 0)
               /\ pc = "raised"
               /\ err = "QueryerError"

C2_Witness ==
    /\ pc = "raised"
    /\ Has("check_detailed_view", 0)
    /\ Has("click_select_all", 0)

\* C3: the table-derived field of the k-th record is the one of the page
\* that was displayed when parse_entry was called for the k-th entry.
C3_RecordFromOwnPage ==
    \A k \in DOMAIN records :
        records[k]["chemical_formula"] = shown[k].formula

\* C4: the UI steps of perform_icsd_query happen once each and in order:
\* form filled, Run Query, list view verified, Select All, Show Detailed
\* View, detailed view verified, Expand All, and only then entries parsed.
C4_StepsInOrder ==
    /\ \A k \in DOMAIN log :
          log[k].op = "send_keys" =>
              \A j \in 1..k : log[j] # Ev("click_run_query", 0)
    /\ Has("click_run_query", 0) =>
          \A k \in DOMAIN query : Has("send_keys", k)
    /\ Precedes("click_run_query", 0, "check_list_view", 1)
    /\ Precedes("check_list_view", 1, "click_select_all", 0)
    /\ Precedes("click_select_all", 0, "click_show_detailed_view", 0)
    /\ Precedes("click_show_detailed_view", 0, "check_detailed_view", 1)
    /\ Precedes("check_detailed_view", 1, "click_expand_all", 0)
    /\ \A k \in DOMAIN log :
          log[k].op = "parse_entry" =>
              \E j \in 1..(k - 1) : log[j] = Ev("click_expand_all", 0)
    /\ \A o \in {"click_run_query", "click_select_all",
                 "click_show_detailed_view", "click_expand_all"} :
          Count(o, 0) <= 1

C4_Witness ==
    /\ pc = "wait"
    /\ Has("parse_entry", 2)
    /\ Has("send_keys", 1)

\* C5 (order): in every iteration n the record is extracted, then the
\* directory made, then meta_data.json written, then the export clicked, then
\* the file moved, then the code appended, then Next clicked; and entry n+1 is
\* not extracted before the file of entry n was moved.
C5_IterationOrder ==
    \A n \in 1..hits :
        /\ Precedes("parse_entry", n, "mkdir", n)
        /\ Precedes("mkdir", n, "write_meta", n)
        /\ Precedes("write_meta", n, "click_export", n)
        /\ Precedes("click_export", n, "move", n)
        /\ Precedes("move", n, "append", n)
        /\ Precedes("append", n, "click_next", n)
        /\ Precedes("move", n, "parse_entry", n + 1)

\* C5 (waiting): while ICSD_CollCode<code>.cif is not in the download
\* directory nothing is moved, appended, advanced or closed, and a move
\* happens only from a state in which the file is there.
C5_WaitsForFile ==
    /\ (pc = "wait" /\ CIF_name(coll_code) \notin downloads)
          => /\ log' = log
             /\ pc' = pc
             /\ i' = i
             /\ entries_parsed' = entries_parsed
             /\ files' = files
    /\ (Len(log') > Len(log) /\ log'[Len(log) + 1].op = "move")
          => CIF_name(coll_code) \in downloads

\* C5: within parse_entries the steps of every entry are strictly ordered
\* and the loop does not get past the wait before the download exists.
C5_EntryStepsOrdered == [](C5_IterationOrder) /\ [][C5_WaitsForFile]_vars

C5_Witness ==
    /\ pc = "loop"
    /\ Has("click_next", 2)
    /\ Len(entries_parsed) = 2

\* C6 (content): after iteration i has processed code c, directory c holds
\* exactly what iteration i wrote.
C6_OnlyThisIteration ==
    (pc \in {"loop", "done"} /\ i >= 1 /\ Len(entries_parsed) >= i)
        => LET c == entries_parsed[i]
           IN /\ c \in dirs
              /\ FilesOf(files, c) =
                   {[dir |-> c, name |-> "meta_data.json", by |-> i],
                    [dir |-> c, name |-> CIF_dest_name(c), by |-> i]}
                   \cup (IF Truthy(save_screenshot)
                         THEN {[dir |-> c, name |-> "screenshot.png", by |-> i]}
                         ELSE {})

\* C6 (others): a step changes no directory but the one of the current code.
C6_OthersUntouched ==
    \A d \in DirNames :
        d # coll_code' =>
            /\ FilesOf(files', d) = FilesOf(files, d)
            /\ (d \in dirs') = (d \in dirs)

\* C6: an entry's directory is named after its collection code and replaces
\* any earlier directory of that name; other directories stay as they were.
C6_DirectoryReplaced == [](C6_OnlyThisIteration) /\ [][C6_OthersUntouched]_vars

C6_Witness ==
    /\ pc = "loop"
    /\ i = 2
    /\ entries_parsed[1] = entries_parsed[2]
    /\ Has("rmtree", 1)
    /\ Has("rmtree", 2)
    /\ \E f \in files : f.name = "old"

\* C7: every record parse_entry returns has collection_code, leaves out the
\* tags without a get_ or is_ method and has every other tag.
C7_OnlyUnparsedTagsSkipped ==
    \A k \in DOMAIN records :
        /\ "collection_code" \in DOMAIN records[k]
        /\ \A t \in DOMAIN ParseTags :
              (ParseTags[t] \in DOMAIN records[k])
                  <=> (ParseTags[t] \in GetMethods \cup IsMethods)

\* C8: with a key outside the recognized field names in the query, Run
\* Query is never clicked, hits stays 0 and post_query_to_form ends in an
\* error.
C8_UnknownKeyNeverRuns ==
    (\E k \in DOMAIN query : query[k] \notin QueryTags)
        => /\ ~Has("click_run_query", 0)
           /\ hits = 0
           /\ pc \in {"new", "constructed", "raised"}
           /\ (pc = "raised" /\ Has("check_basic_search", 1))
                 => err \in {"KeyError", "NoSuchElementException"}

C8_Witness ==
    /\ pc = "raised"
    /\ err = "KeyError"
    /\ Has("send_keys", 1)
    /\ query[2] \notin QueryTags

\* C9: with save_screenshot enabled every write of meta_data.json is followed
\* by the screenshot of that entry, saved in its directory, and the run goes
\* on to the export; with save_screenshot not enabled no screenshot is taken.
C9_ScreenshotWhenEnabled ==
    /\ Truthy(save_screenshot) =>
          \A k \in DOMAIN log :
              log[k].op = "write_meta" =>
                  /\ k < Len(log)
                  /\ log[k + 1] = Ev("screenshot", log[k].arg)
                  /\ err # "TypeError"
    /\ ~Truthy(save_screenshot) => ~HasOp("screenshot")

\* C10: on normal completion parse_entries returns hits codes, the k-th one
\* the code of the k-th page visited, under which that entry's directory,
\* meta_data.json and CIF were written; with hits = 0 the list is empty and
\* no directory was made.
C10_ReturnsVisitedCodes ==
    pc = "done" =>
        /\ Len(entries_parsed) = hits
        /\ Len(shown) = hits
        /\ \A k \in 1..hits :
              /\ entries_parsed[k] = ToString(shown[k].code)
              /\ (\A j \in (k + 1)..hits : entries_parsed[j] # entries_parsed[k])
                    => /\ [dir |-> entries_parsed[k], name |-> "meta_data.json",
                           by |-> k] \in files
                       /\ [dir |-> entries_parsed[k],
                           name |-> CIF_dest_name(entries_parsed[k]),
                           by |-> k] \in files
        /\ \A f \in files : f.by >= 1 => f.dir = entries_parsed[f.by]
        /\ hits = 0 => (entries_parsed = <<>> /\ ~HasOp("mkdir"))

C10_Witness ==
    /\ pc = "done"
    /\ hits = 2
    /\ entries_parsed[1] # entries_parsed[2]

\* C11: when parse_entries has completed normally the session was closed
\* exactly once, the close is the last driver interaction, and it comes after
\* the move of the last entry's CIF.
C11_ClosedOnceAtEnd ==
    pc = "done" =>
        /\ Count("quit", 0) = 1
        /\ log[Len(log)] = Ev("quit", 0)
        /\ \A n \in 1..hits :
              \E k \in 1..(Len(log) - 1) : log[k] = Ev("move", n)
        /\ Len(entries_parsed) = hits

C11_Witness ==
    /\ pc = "done"
    /\ Has("move", 2)
    /\ log[Len(log)] = Ev("quit", 0)

\* C12: once the entry loop is entered, and given that every export reaches
\* the download directory and the program keeps stepping, the run ends: all
\* hits entries are processed and the session is closed, or an exception
\* leaves the loop.
C12_LoopTerminates ==
    (pc = "loop") ~> (\/ pc = "done" /\ Len(entries_parsed) = hits
                                     /\ log[Len(log)] = Ev("quit", 0)
                      \/ pc = "raised")

C12_Witness ==
    /\ pc = "done"
    /\ Len(entries_parsed) = 2
    /\ pending = {}
    /\ downloads = {}

\* C13: get_collection_code on a page without a 'Summary' title, or with a
\* Summary title whose code token is missing or not an integer, ends the
\* session and raises QueryerError and nothing else; on any other page the
\* integer code of the page is returned.
C13_UnparsableCodeQuitsAndRaises ==
    /\ (/\ pc = "raised"
        /\ Len(shown) > Len(records)
        /\ shown[Len(shown)].summary # "ok")
           => /\ err = "QueryerError"
              /\ log[Len(log)] = Ev("quit", 0)
    /\ \A k \in 1..Len(records) :
          records[k]["collection_code"] = shown[k].code

\* C14: an object constructed without structure_source has the attribute "E".
C14_DefaultsToE ==
    pc = "constructed" => structure_source = <<"E">>

\* C17: the record of the first entry of a run, when the page of that
\* entry carries warnings, has them under its warnings field.
C17_WarningsRecorded ==
    (Len(records) >= 1 /\ shown[1].warn)
        => "warnings" \in DOMAIN records[1]

\* C19: post_query_to_form on an empty query ends the session and raises
\* QueryerError: its only driver interaction is the quit, nothing is typed
\* into the form, Run Query is not clicked and hits keeps its value.
C19_EmptyQueryAborts ==
    [][(pc = "constructed" /\ query = <<>>)
          => /\ pc' = "raised"
             /\ err' = "QueryerError"
             /\ log' = Append(log, Ev("quit", 0))
             /\ hits' = hits]_vars

C19_Witness ==
    /\ pc = "raised"
    /\ query = <<>>
    /\ err = "QueryerError"
    /\ log = <<Ev("get", 0), Ev("check_basic_search", 1), Ev("quit", 0)>>

\* C20: a run that ended with an error has closed the session exactly when
\* the error is the QueryerError of a failed page check, of the empty query
\* or of the hit-count mismatch; after any other error the session is open,
\* and in both cases the directory of every completed entry is in place.
C20_QuitOnlyOnCheckedFailures ==
    pc = "raised"
        => /\ Has("quit", 0) <=> err = "QueryerError"
           /\ \A k \in 1..Len(entries_parsed) : entries_parsed[k] \in dirs

\* C15: whenever get_cell_parameters returns, its result has exactly the
\* keys a, b, c, alpha, beta, gamma, with a, b, c positive and the angles
\* strictly between 0 and 180, and its text had exactly six tokens, each a
\* number up to its parenthesis; any other text made the call fail.
C15_CellParametersValidOrFail ==
    (call.fn = "get_cell_parameters" /\ call.out.exc = "none")
        => /\ DOMAIN call.out.val = {"a", "b", "c", "alpha", "beta", "gamma"}
           /\ \A key \in {"a", "b", "c"} : call.out.val[key] > 0
           /\ \A key \in {"alpha", "beta", "gamma"} :
                 call.out.val[key] > 0 /\ call.out.val[key] < 180
           /\ Len(call.arg) = 6
           /\ \A k \in DOMAIN call.arg : call.arg[k][1] \in DOMAIN Digits

C15_Witness ==
    /\ call.fn = "get_cell_parameters"
    /\ call.out.exc = "none"
    /\ call.arg[1] = <<"1", "8", "0">>
    /\ call.arg[6] = <<"9", "0", "(", "2", ")">>
    /\ call.out.val["a"] = 180
    /\ call.out.val["gamma"] = 90

\* C16: every text getter returns the empty string on a panel without the
\* row it reads, and the stripped value of that row otherwise.
C16_EmptyStringWhenRowMissing ==
    call.fn \in TextGetters
        => call.out = IF \E k \in DOMAIN call.arg :
                            call.arg[k].Name = RowName(call.fn)
                      THEN <<"x">>
                      ELSE <<>>

\* C18: after construction and after an assignment of a string or of an
\* empty value, structure_source is E, T or A: the upper-cased first
\* character of the value when that is E, T or A, and A otherwise.
C18_StructureSourceIsETA ==
    /\ structure_source \in {<<"E">>, <<"T">>, <<"A">>}
    /\ call.fn = "structure_source"
          => structure_source =
                IF call.arg \in {<<"e">>, <<"E", "x">>} THEN <<"E">>
                ELSE IF call.arg \in {<<"t">>, <<"T">>} THEN <<"T">>
                ELSE <<"A">>

C18_Witness ==
    /\ call.fn = "structure_source"
    /\ call.arg = <<"t">>
    /\ structure_source = <<"T">>

\* C21: no run ends with an exception of wait_for_ajax: a wait that times
\* out, or whose readiness script fails, raises nothing, and the run it
\* belongs to has either gone on or ended with an error of another cause.
C21_WaitNeverAborts ==
    /\ err \notin {"TimeoutException", "JavascriptException"}
    /\ (unready /\ pc = "raised")
          => err \in {"NoSuchElementException", "QueryerError", "ValueError",
                      "UnboundLocalError", "TypeError", "ImportError"}

C21_Witness ==
    /\ unready
    /\ pc = "done"
    /\ Len(entries_parsed) = 2
    /\ Has("click_next", 1)

====
